---- MODULE Spec2Model ----
(***************************************************************************)
(* Model of src/main.py: the schedule-extraction pipeline (parse_content), *)
(* the upload and export handlers and the session/account routes around    *)
(* them.                                                                   *)
(*                                                                         *)
(* Text is modelled as a sequence of one-character strings.  The token     *)
(* "ndash" stands for the single character U+2013 (EN DASH); fixed         *)
(* keywords of the calendar format ("BEGIN:VEVENT", "SUMMARY:", ...) are   *)
(* single tokens, none of which contains the letter Z.                     *)
(***************************************************************************)
EXTENDS Integers, Sequences, FiniteSets, TLC

VARIABLES
    users,      \* table "users": sequence of [username, hashed_password]; id = position
    session,    \* per client: the signed session cookie's user_id (0: none)
    history,    \* table "history": sequence of Operation rows
    files,      \* working directory: user id -> content of export_<id>.ics
    pending,    \* FileResponses returned by export whose file is not yet sent
    delivered,  \* file downloads that have been sent to clients
    req,        \* the step taken last: a request, or the sending of a file
    resp        \* what it answered

vars == <<users, session, history, files, pending, delivered, req, resp>>

-----------------------------------------------------------------------------
(* Bounds of the model *)

MaxLines == 2      \* lines of text in an uploaded document
MaxSel == 2        \* length of the `selected` list of an export
MaxHistory == 2    \* exports committed in one behaviour

-----------------------------------------------------------------------------
(* Characters and strings *)

DigitChars == <<"0", "1", "2", "3", "4", "5", "6", "7", "8", "9">>

IsDigit(c) == \E i \in 1..10 : DigitChars[i] = c

DigitVal(c) == (CHOOSE i \in 1..10 : DigitChars[i] = c) - 1

\* str.isspace(), which both \s and str.strip() use
IsSpace(c) == c \in {" ", "\t", "\r"}

\* int(s) of a string of decimal digits
RECURSIVE ToInt(_)
ToInt(s) ==
    IF s = <<>> THEN 0
    ELSE 10 * ToInt(SubSeq(s, 1, Len(s) - 1)) + DigitVal(s[Len(s)])

AllDigits(s) == \A i \in 1..Len(s) : IsDigit(s[i])

\* str.endswith
EndsWith(s, suffix) ==
    /\ Len(suffix) <= Len(s)
    /\ SubSeq(s, Len(s) - Len(suffix) + 1, Len(s)) = suffix

\* str.replace(old, new) for a one-character `old`: every occurrence is
\* rewritten (the string is halved at each step to keep the evaluation shallow)
RECURSIVE Replace(_, _, _)
Replace(s, old, new) ==
    IF s = <<>> THEN <<>>
    ELSE IF Len(s) = 1 THEN (IF s[1] = old THEN new ELSE s)
    ELSE Replace(SubSeq(s, 1, Len(s) \div 2), old, new)
             \o Replace(SubSeq(s, (Len(s) \div 2) + 1, Len(s)), old, new)

RECURSIVE LStrip(_)
LStrip(s) == IF s # <<>> /\ IsSpace(Head(s)) THEN LStrip(Tail(s)) ELSE s

RECURSIVE RStrip(_)
RStrip(s) ==
    IF s # <<>> /\ IsSpace(s[Len(s)]) THEN RStrip(SubSeq(s, 1, Len(s) - 1)) ELSE s

\* str.strip()
Strip(s) == RStrip(LStrip(s))

\* str.split(sep) for a one-character sep: the pieces between consecutive
\* separators, one more than there are separators (never an empty list)
Split(s, sep) ==
    LET at   == SelectSeq([i \in 1..Len(s) |-> i], LAMBDA i : s[i] = sep)
        from == [k \in 1..(Len(at) + 1) |-> IF k = 1 THEN 1 ELSE at[k - 1] + 1]
        to   == [k \in 1..(Len(at) + 1) |-> IF k > Len(at) THEN Len(s) ELSE at[k] - 1]
    IN  [k \in 1..(Len(at) + 1) |-> SubSeq(s, from[k], to[k])]

\* sep.join(parts)
RECURSIVE Join(_, _)
Join(parts, sep) ==
    IF parts = <<>> THEN <<>>
    ELSE IF Len(parts) = 1 THEN parts[1]
    ELSE parts[1] \o <<sep>> \o Join(Tail(parts), sep)

-----------------------------------------------------------------------------
\* parse_content: the pattern has three groups, s = \d{1,2}[:.]\d{2}, then
\* optional whitespace, a hyphen or an en dash, optional whitespace,
\* e = \d{1,2}[:.]\d{2}, optional whitespace, and t = the rest of the line.

TimeSep == {":", "."}
Dash == {"-", "ndash"}

\* \d{k}[:.]\d{2} matches at position p
IsTimeAt(line, p, k) ==
    /\ p >= 1
    /\ p + k + 2 <= Len(line)
    /\ \A i \in p..(p + k - 1) : IsDigit(line[i])
    /\ line[p + k] \in TimeSep
    /\ IsDigit(line[p + k + 1])
    /\ IsDigit(line[p + k + 2])

\* Length of the match of \d{1,2}[:.]\d{2} at p, 0 when there is none.  The
\* greedy two-digit reading is tried first; the two readings exclude each
\* other (line[p+1] is a digit or a separator), so backtracking into the
\* quantifier never finds a second way.
TimeLen(line, p) ==
    IF IsTimeAt(line, p, 2) THEN 5
    ELSE IF IsTimeAt(line, p, 1) THEN 4
    ELSE 0

\* \s* at p: the position after the whitespace run (what follows \s* in the
\* pattern never matches whitespace, or matches anything, so greedy is final)
RECURSIVE SkipSpace(_, _)
SkipSpace(line, p) ==
    IF p <= Len(line) /\ IsSpace(line[p]) THEN SkipSpace(line, p + 1) ELSE p

NoMatch == [ok |-> FALSE, s |-> <<>>, e |-> <<>>, t |-> <<>>]

\* The pattern matched with its first character at p: m.groups()
MatchAt(line, p) ==
    LET l1 == TimeLen(line, p)
        q  == SkipSpace(line, p + l1)
        r  == SkipSpace(line, q + 1)
        l2 == TimeLen(line, r)
        u  == SkipSpace(line, r + l2)
    IN  IF l1 = 0 THEN NoMatch
        ELSE IF ~(q <= Len(line) /\ line[q] \in Dash) THEN NoMatch
        ELSE IF l2 = 0 THEN NoMatch
        ELSE [ok |-> TRUE,
              s  |-> SubSeq(line, p, p + l1 - 1),
              e  |-> SubSeq(line, r, r + l2 - 1),
              t  |-> SubSeq(line, u, Len(line))]

\* re.search: the leftmost position at which the pattern matches
RECURSIVE SearchFrom(_, _)
SearchFrom(line, p) ==
    IF p > Len(line) THEN NoMatch
    ELSE IF MatchAt(line, p).ok THEN MatchAt(line, p)
    ELSE SearchFrom(line, p + 1)

re_search(line) == SearchFrom(line, 1)

ISO_SECONDS == <<":", "0", "0">>

\* The dict appended for one matching line
CandidateNoReplace(m, date_str) ==
    [title |-> Strip(m.t),
     time  |-> m.s \o <<"-">> \o m.e,
     s_iso |-> date_str \o <<"T">> \o m.s \o ISO_SECONDS,
     e_iso |-> date_str \o <<"T">> \o m.e \o ISO_SECONDS]

Candidate(m, date_str) ==
    [title |-> Strip(m.t),
     time  |-> m.s \o <<"-">> \o m.e,
     s_iso |-> date_str \o <<"T">> \o Replace(m.s, ".", <<":">>) \o ISO_SECONDS,
     e_iso |-> date_str \o <<"T">> \o Replace(m.e, ".", <<":">>) \o ISO_SECONDS]

\* The loop over text.split('\n')
RECURSIVE MatchLinesDedup(_, _)
MatchLinesDedup(lines, date_str) ==
    IF lines = <<>> THEN <<>>
    ELSE LET m    == re_search(Head(lines))
             rest == MatchLinesDedup(Tail(lines), date_str)
         IN  IF m.ok /\ \A k \in 1..Len(rest) : rest[k] # Candidate(m, date_str)
             THEN <<Candidate(m, date_str)>> \o rest
             ELSE rest

RECURSIVE MatchLines(_, _)
MatchLines(lines, date_str) ==
    IF lines = <<>> THEN <<>>
    ELSE LET m == re_search(Head(lines))
         IN  (IF m.ok THEN <<Candidate(m, date_str)>> ELSE <<>>)
                 \o MatchLines(Tail(lines), date_str)

PDF == <<".", "p", "d", "f">>
HTML == <<".", "h", "t", "m", "l">>

\* A file is [filename, corrupt, error, text]: `text` is what the document
\* parser of the file's kind (pdfplumber, BeautifulSoup) extracts from the
\* bytes; `corrupt` says that this parser raises on them, with message `error`.
parse_content(file, date_str) ==
    LET parsed == EndsWith(file.filename, PDF) \/ EndsWith(file.filename, HTML)
        text   == IF parsed THEN file.text ELSE <<>>
    IN  IF parsed /\ file.corrupt
        THEN [raised |-> TRUE, cause |-> file.error, events |-> <<>>]
        ELSE [raised |-> FALSE, cause |-> "",
              events |-> MatchLines(Split(text, "\n"), date_str)]

-----------------------------------------------------------------------------
(* datetime.fromisoformat, on the strings the model enumerates: a date     *)
(* YYYY-MM-DD alone, or followed by one separator character and HH, HH:MM  *)
(* or HH:MM:SS.  (No enumerated string carries a fraction or a UTC offset.)*)

IsLeap(y) == (y % 4 = 0 /\ y % 100 # 0) \/ y % 400 = 0

DaysInMonth(y, m) ==
    IF m = 2 THEN (IF IsLeap(y) THEN 29 ELSE 28)
    ELSE IF m \in {4, 6, 9, 11} THEN 30
    ELSE 31

BadDate == [ok |-> FALSE, dt |-> <<0, 0, 0, 0, 0, 0>>]

\* The date part: [ok, y, m, d]
ParseDate(s) ==
    LET wellFormed ==
            /\ Len(s) = 10
            /\ AllDigits(SubSeq(s, 1, 4)) /\ s[5] = "-"
            /\ AllDigits(SubSeq(s, 6, 7)) /\ s[8] = "-"
            /\ AllDigits(SubSeq(s, 9, 10))
        y == ToInt(SubSeq(s, 1, 4))
        m == ToInt(SubSeq(s, 6, 7))
        d == ToInt(SubSeq(s, 9, 10))
    IN  IF wellFormed /\ y >= 1 /\ m \in 1..12 /\ d >= 1 /\ d <= DaysInMonth(y, m)
        THEN [ok |-> TRUE, y |-> y, m |-> m, d |-> d]
        ELSE [ok |-> FALSE, y |-> 0, m |-> 0, d |-> 0]

\* The time part: every component is exactly two digits
ParseTime(s) ==
    LET n == Len(s)
        wellFormed ==
            /\ n \in {2, 5, 8}
            /\ AllDigits(SubSeq(s, 1, 2))
            /\ n >= 5 => (s[3] = ":" /\ AllDigits(SubSeq(s, 4, 5)))
            /\ n >= 8 => (s[6] = ":" /\ AllDigits(SubSeq(s, 7, 8)))
        hh == ToInt(SubSeq(s, 1, 2))
        mm == IF n >= 5 THEN ToInt(SubSeq(s, 4, 5)) ELSE 0
        ss == IF n >= 8 THEN ToInt(SubSeq(s, 7, 8)) ELSE 0
    IN  IF wellFormed /\ hh <= 23 /\ mm <= 59 /\ ss <= 59
        THEN [ok |-> TRUE, hh |-> hh, mm |-> mm, ss |-> ss]
        ELSE [ok |-> FALSE, hh |-> 0, mm |-> 0, ss |-> 0]

\* [ok, dt]: ok = FALSE stands for the ValueError
fromisoformat(s) ==
    LET date == ParseDate(SubSeq(s, 1, 10))
        time == ParseTime(SubSeq(s, 12, Len(s)))
    IN  IF Len(s) < 10 \/ ~date.ok THEN BadDate
        ELSE IF Len(s) = 10
        THEN [ok |-> TRUE, dt |-> <<date.y, date.m, date.d, 0, 0, 0>>]
        ELSE IF time.ok
        THEN [ok |-> TRUE, dt |-> <<date.y, date.m, date.d, time.hh, time.mm, time.ss>>]
        ELSE BadDate

\* datetime.__lt__ on naive values
RECURSIVE DtLess(_, _)
DtLess(a, b) ==
    IF a = <<>> THEN FALSE
    ELSE IF Head(a) # Head(b) THEN Head(a) < Head(b)
    ELSE DtLess(Tail(a), Tail(b))

-----------------------------------------------------------------------------
(* The calendar library (ics): Calendar.events is a set of Event objects,  *)
(* each with a fresh random uid that its hash and equality rest on.        *)

\* Python list indexing: [ok, val]; ok = FALSE stands for the IndexError
PyIndex(list, i) ==
    IF i >= 0 /\ i < Len(list) THEN [ok |-> TRUE, val |-> list[i + 1]]
    ELSE IF i < 0 /\ i >= 0 - Len(list) THEN [ok |-> TRUE, val |-> list[Len(list) + i + 1]]
    ELSE [ok |-> FALSE, val |-> <<>>]

\* n as `width` decimal digits
RECURSIVE Pad(_, _)
Pad(n, width) ==
    IF width = 0 THEN <<>>
    ELSE Pad(n \div 10, width - 1) \o <<DigitChars[(n % 10) + 1]>>

\* arrow_to_iso: format 'YYYYMMDDTHHmmss' + 'Z'
arrow_to_iso(dt) ==
    Pad(dt[1], 4) \o Pad(dt[2], 2) \o Pad(dt[3], 2) \o <<"T">>
        \o Pad(dt[4], 2) \o Pad(dt[5], 2) \o Pad(dt[6], 2) \o <<"Z">>

\* escape_string: the characters the text escaping rewrites
RECURSIVE escape_string(_)
escape_string(s) ==
    IF s = <<>> THEN <<>>
    ELSE (IF Head(s) \in {",", ";", "\\"} THEN <<"\\", Head(s)>> ELSE <<Head(s)>>)
             \o escape_string(Tail(s))

\* uid_gen: lower-case hexadecimal text, distinct per Event
Uid(k) == <<"uuid4-", DigitChars[k + 1]>>

\* Event.serialize(): the content lines of one entry that carry the fields
\* export sets, and the uid (their order within the entry is not relied upon)
EventLines(ev) ==
    <<  <<"BEGIN:VEVENT">>,
        <<"DTEND:">> \o arrow_to_iso(ev.end),
        <<"DTSTART:">> \o arrow_to_iso(ev.begin)  >>
    \o (IF ev.name # <<>> THEN << <<"SUMMARY:">> \o escape_string(ev.name) >> ELSE <<>>)
    \o <<  <<"UID:">> \o ev.uid,
           <<"END:VEVENT">>  >>

RECURSIVE AllEventLines(_)
AllEventLines(evs) ==
    IF evs = <<>> THEN <<>> ELSE EventLines(Head(evs)) \o AllEventLines(Tail(evs))

\* Calendar.serialize() with the events in iteration order `evs`
serialize(evs) ==
    Join(<< <<"BEGIN:VCALENDAR">>, <<"PRODID:ics.py - http://git.io/lLljaA">>,
            <<"VERSION:2.0">> >>
         \o AllEventLines(evs)
         \o << <<"END:VCALENDAR">> >>, "\r\n")

-----------------------------------------------------------------------------
(* export: the loop over `selected` (lines 136-146)                        *)

\* The loop left by an exception of kind `exc`
Raised(exc) == [raised |-> TRUE, exc |-> exc, events |-> <<>>, saved |-> <<>>]

\* cal.events.add(e): e carries a fresh uid, so it is never already a member
CalendarAddByValue(events, e) ==
    IF \E k \in 1..Len(events) :
           /\ events[k].name = e.name
           /\ events[k].begin = e.begin
           /\ events[k].end = e.end
    THEN events
    ELSE Append(events, e)

CalendarAdd(events, e) == Append(events, e)

\* The body of the loop for index i, with the calendar built so far: the
\* IndexError and ValueError exits, in the order the statements run
LoopBody(titles, starts, ends, i, acc) ==
    LET st       == PyIndex(starts, i)
        start_dt == fromisoformat(st.val)
        en       == PyIndex(ends, i)
        end_dt   == fromisoformat(en.val)
        ti       == PyIndex(titles, i)
        parts    == Split(st.val, "T")
        clock    == parts[2]
        e        == [uid   |-> Uid(Len(acc.events) + 1),
                     name  |-> ti.val,
                     begin |-> start_dt.dt,
                     end   |-> end_dt.dt]
    IN  IF ~st.ok THEN Raised("IndexError")                            \* 139
        ELSE IF ~start_dt.ok THEN Raised("ValueError: isoformat")      \* 139
        ELSE IF ~en.ok THEN Raised("IndexError")                       \* 140
        ELSE IF ~end_dt.ok THEN Raised("ValueError: isoformat")        \* 140
        ELSE IF ~ti.ok THEN Raised("IndexError")                       \* 142
        ELSE IF DtLess(end_dt.dt, start_dt.dt)
        THEN Raised("ValueError: End must be after begin")             \* 144
        ELSE IF Len(parts) < 2 THEN Raised("IndexError")               \* 146
        ELSE [raised |-> FALSE,
              exc    |-> "",
              events |-> CalendarAdd(acc.events, e),
              saved  |-> Append(acc.saved,
                                [title |-> ti.val,
                                 time  |-> SubSeq(clock, 1,
                                                  IF Len(clock) < 5 THEN Len(clock) ELSE 5)])]

\* A loop that drops the entries that raise
RECURSIVE ExportLoopSkipBad(_, _, _, _, _)
ExportLoopSkipBad(titles, starts, ends, selected, acc) ==
    IF selected = <<>> THEN acc
    ELSE LET next == LoopBody(titles, starts, ends, Head(selected), acc)
         IN  ExportLoopSkipBad(titles, starts, ends, Tail(selected),
                               IF next.raised THEN acc ELSE next)

RECURSIVE ExportLoop(_, _, _, _, _)
ExportLoop(titles, starts, ends, selected, acc) ==
    IF selected = <<>> THEN acc
    ELSE LET next == LoopBody(titles, starts, ends, Head(selected), acc)
         IN  IF next.raised THEN next
             ELSE ExportLoop(titles, starts, ends, Tail(selected), next)

EmptyCalendar == [raised |-> FALSE, exc |-> "", events |-> <<>>, saved |-> <<>>]

\* The events of a set in iteration order: `order` is a permutation of their
\* positions (the set is keyed by hashes of random uids).  Permutations is
\* the operator of the standard module TLC.
Iterate(events, order) == [k \in 1..Len(events) |-> events[order[k]]]

\* ics_fixed: cal.serialize() with every "Z" removed (lines 154-155)
IcsFixed(events, order) == Replace(serialize(Iterate(events, order)), "Z", <<>>)

-----------------------------------------------------------------------------
(* State and routes *)

Clients == {"c1", "c2"}
Usernames == {"u1", "u2"}
Passwords == {"p1", "p2"}

\* users.id is an autoincremented primary key: 1, 2, ...
UserIds == 1..Cardinality(Usernames)

\* export_<id>.ics does not exist
NoFile == <<>>

\* pwd_context.hash / pwd_context.verify
Hash(password) == <<"pbkdf2_sha256", password>>
Verify(password, hashed) == hashed = Hash(password)

\* db.query(User).filter(User.username == username).first(): the id, or 0
FindUser(username) ==
    IF \E i \in 1..Len(users) : users[i].username = username
    THEN CHOOSE i \in 1..Len(users) :
             /\ users[i].username = username
             /\ \A j \in 1..(i - 1) : users[j].username # username
    ELSE 0

Init ==
    /\ users = <<>>
    /\ session = [c \in Clients |-> 0]
    /\ history = <<>>
    /\ files = [u \in UserIds |-> NoFile]
    /\ pending = {}
    /\ delivered = {}
    /\ req = [op |-> "none"]
    /\ resp = [kind |-> "none"]

\* GET /
home(c) ==
    /\ req' = [op |-> "home", client |-> c]
    /\ resp' = [kind |-> "page", user |-> session[c]]
    /\ UNCHANGED <<users, session, history, files, pending, delivered>>

\* POST /login
login(c, username, password) ==
    LET user == FindUser(username)
    IN  /\ req' = [op |-> "login", client |-> c, username |-> username,
                   password |-> password]
        /\ IF user = 0 \/ ~Verify(password, users[user].hashed_password)
           THEN /\ resp' = [kind |-> "redirect", error |-> "bad_login"]
                /\ UNCHANGED session
           ELSE /\ session' = [session EXCEPT ![c] = user]
                /\ resp' = [kind |-> "redirect", error |-> ""]
        /\ UNCHANGED <<users, history, files, pending, delivered>>

\* POST /register
register(username, password) ==
    /\ req' = [op |-> "register", username |-> username, password |-> password]
    /\ IF FindUser(username) # 0
       THEN /\ resp' = [kind |-> "redirect", error |-> "user_exists"]
            /\ UNCHANGED users
       ELSE /\ users' = Append(users, [username |-> username,
                                       hashed_password |-> Hash(password)])
            /\ resp' = [kind |-> "redirect", error |-> ""]
    /\ UNCHANGED <<session, history, files, pending, delivered>>

\* GET /logout
logout(c) ==
    /\ req' = [op |-> "logout", client |-> c]
    /\ session' = [session EXCEPT ![c] = 0]
    /\ resp' = [kind |-> "redirect", error |-> ""]
    /\ UNCHANGED <<users, history, files, pending, delivered>>

\* The response of upload to what parse_content did (lines 115-123)
UploadOutcomeSwallow(result) ==
    IF result.raised \/ result.events = <<>>
    THEN [kind |-> "redirect", error |-> "no_events", cause |-> "", events |-> <<>>]
    ELSE [kind |-> "page", error |-> "", cause |-> "", events |-> result.events]

UploadOutcome(result) ==
    IF result.raised
    THEN [kind |-> "redirect", error |-> "parse_error", cause |-> result.cause,
          events |-> <<>>]
    ELSE IF result.events = <<>>
    THEN [kind |-> "redirect", error |-> "no_events", cause |-> "", events |-> <<>>]
    ELSE [kind |-> "page", error |-> "", cause |-> "", events |-> result.events]

\* POST /upload
upload(c, file, event_date) ==
    /\ req' = [op |-> "upload", client |-> c, file |-> file, event_date |-> event_date]
    /\ resp' = UploadOutcome(parse_content(file, event_date))
    /\ UNCHANGED <<users, session, history, files, pending, delivered>>

\* `if not user_id` (line 134)
NeverRefuse(user_id) == FALSE

NotLoggedIn(user_id) == user_id = 0

\* POST /export.  The four list fields are required form fields: a request
\* that lacks one is answered by the framework and never reaches the handler.
export(c, titles, starts, ends, selected, schedule_name) ==
    LET user_id == session[c]
        id      == Len(history) + 1
    IN  /\ titles # <<>> /\ starts # <<>> /\ ends # <<>> /\ selected # <<>>
        /\ Len(history) < MaxHistory
        /\ req' = [op |-> "export", client |-> c, titles |-> titles,
                   starts |-> starts, ends |-> ends, selected |-> selected,
                   schedule_name |-> schedule_name]
        /\ IF NotLoggedIn(user_id)
           THEN /\ resp' = [kind |-> "redirect", error |-> "login_required"]
                /\ UNCHANGED <<history, files, pending>>
           ELSE \E cal \in {ExportLoop(titles, starts, ends, selected, EmptyCalendar)} :
                IF cal.raised
                THEN /\ resp' = [kind |-> "exception", exc |-> cal.exc]
                     /\ UNCHANGED <<history, files, pending>>
                ELSE \E order \in Permutations(1..Len(cal.events)) :
                     \E ics_fixed \in {IcsFixed(cal.events, order)} :
                     /\ history' = Append(history,
                                          [custom_name |-> schedule_name,
                                           event_list  |-> cal.saved,
                                           user_id     |-> user_id])
                     /\ files' = [files EXCEPT ![user_id] = ics_fixed]
                     /\ pending' = pending \cup
                            {[id |-> id, client |-> c, path |-> user_id,
                              own |-> ics_fixed]}
                     /\ resp' = [kind |-> "file", id |-> id, path |-> user_id,
                                 filename |-> schedule_name]
        /\ UNCHANGED <<users, session, delivered>>

\* The FileResponse of an export is sent: the file is opened and read now
SendFile(p) ==
    /\ p \in pending
    /\ pending' = pending \ {p}
    /\ delivered' = delivered \cup
           {[id |-> p.id, client |-> p.client, own |-> p.own, body |-> files[p.path]]}
    /\ req' = [op |-> "send_file", client |-> p.client, id |-> p.id]
    /\ resp' = [kind |-> "body", body |-> files[p.path]]
    /\ UNCHANGED <<users, session, history, files>>

-----------------------------------------------------------------------------
(* Inputs *)

D_MAY == <<"2", "0", "2", "4", "-", "0", "5", "-", "0", "1">>
D_DEC == <<"2", "0", "2", "4", "-", "1", "2", "-", "3", "1">>
D_SHORT == <<"5", "/", "1">>

Dates == {D_MAY, D_DEC, D_SHORT}

LinePool ==
    { <<"0", "9", ":", "0", "0", "-", "1", "0", ":", "3", "0", " ", "M", "a", "t", "h">>,
      <<"1", "4", ".", "0", "0", " ", "ndash", " ", "1", "5", ".", "0", "0", " ", "L", "a", "b", " ", "\t">>,
      <<"L", "u", "n", "c", "h">>,
      <<"9", ":", "0", "0", "-", "1", "0", ":", "0", "0">>,
      <<"2", "5", ":", "9", "9", "-", "2", "6", ":", "0", "0", " ", "X">>,
      <<"x", " ", "1", ":", "0", "0", "-", "2", ":", "0", "0", " ", "3", ":", "0", "0", "-", "4", ":", "0", "0", " ", "b">>,
      <<"1", "2", "3", ":", "4", "5", "-", "6", ":", "7", "8", "\t", "Z">>,
      <<"1", "0", ":", "0", "0", "-", "0", "9", ":", "0", "0", " ", "B">>,
      <<>> }

\* Sequences of 1..n elements of S
SeqsUpTo(S, n) == UNION {[1..k -> S] : k \in 1..n}

Filenames == { <<"a", ".", "p", "d", "f">>, <<"a", ".", "h", "t", "m", "l">>, <<"a", ".", "t", "x", "t">>, <<"a", ".", "P", "D", "F">> }

\* `lines` records the lines the text was joined from; the program never
\* reads it
Files ==
    {[filename |-> f, corrupt |-> FALSE, error |-> "", text |-> Join(ls, "\n"),
      lines |-> ls] :
         f \in Filenames, ls \in SeqsUpTo(LinePool, MaxLines)}
    \cup
    {[filename |-> f, corrupt |-> TRUE, error |-> "no pages", text |-> <<>>,
      lines |-> <<>>] :
         f \in Filenames}

T_0900 == <<"T", "0", "9", ":", "0", "0", ":", "0", "0">>
T_1030 == <<"T", "1", "0", ":", "3", "0", ":", "0", "0">>

\* Rows of the export form: title, start, end
Row(title, start, end) == [title |-> title, start |-> start, end |-> end]

R_GOOD == Row(<<"A">>, D_MAY \o T_0900, D_MAY \o T_1030)
R_ZOO == Row(<<"Z", "o", "o">>, D_MAY \o T_0900, D_MAY \o T_1030)
R_LATE == Row(<<"B">>, D_MAY \o T_1030, D_MAY \o T_1030)
R_BADSTART == Row(<<"A">>, D_MAY \o <<"T", "9", ":", "0", "0", ":", "0", "0">>, D_MAY \o T_1030)
R_BADEND == Row(<<"A">>, D_MAY \o T_0900, D_MAY \o <<"T", "2", "5", ":", "9", "9", ":", "0", "0">>)
R_NOT == Row(<<"A">>, D_MAY \o <<" ", "0", "9", ":", "0", "0", ":", "0", "0">>, D_MAY \o T_1030)
R_BACKWARDS == Row(<<"A">>, D_MAY \o T_1030, D_MAY \o T_0900)

Titles(rows) == [k \in 1..Len(rows) |-> rows[k].title]
Starts(rows) == [k \in 1..Len(rows) |-> rows[k].start]
Ends(rows) == [k \in 1..Len(rows) |-> rows[k].end]

DEFAULT_NAME == "schedule"

-----------------------------------------------------------------------------
(* Specifications *)

\* The web application: accounts, sessions, uploads, exports and downloads,
\* with one document and one export form
WebFiles ==
    {[filename |-> <<"a", ".", "p", "d", "f">>, corrupt |-> FALSE, error |-> "",
      text |-> <<"9", ":", "0", "0", "-", "1", "0", ":", "0", "0">>,
      lines |-> << <<"9", ":", "0", "0", "-", "1", "0", ":", "0", "0">> >>]}

WebRows == <<R_GOOD>>
WebSelections == {<<0>>, <<1>>}
RegisterPasswords == {"p1"}

Next ==
    \/ \E c \in Clients : home(c)
    \/ \E c \in Clients, u \in Usernames, p \in Passwords : login(c, u, p)
    \/ \E u \in Usernames, p \in RegisterPasswords : register(u, p)
    \/ \E c \in Clients : logout(c)
    \/ \E c \in Clients, f \in WebFiles : upload(c, f, D_MAY)
    \/ \E c \in Clients, sel \in WebSelections :
           export(c, Titles(WebRows), Starts(WebRows), Ends(WebRows), sel, DEFAULT_NAME)
    \/ \E p \in pending : SendFile(p)

Spec == Init /\ [][Next]_vars

\* The state after register("u1", "p1") and login("c1", "u1", "p1")
InitLoggedIn ==
    /\ users = <<[username |-> "u1", hashed_password |-> Hash("p1")]>>
    /\ session = [c \in Clients |-> IF c = "c1" THEN 1 ELSE 0]
    /\ history = <<>>
    /\ files = [u \in UserIds |-> NoFile]
    /\ pending = {}
    /\ delivered = {}
    /\ req = [op |-> "none"]
    /\ resp = [kind |-> "none"]

CandTitles(events) == [k \in 1..Len(events) |-> events[k].title]
CandStarts(events) == [k \in 1..Len(events) |-> events[k].s_iso]
CandEnds(events) == [k \in 1..Len(events) |-> events[k].e_iso]

\* One upload of any document, then one export of candidates it returned,
\* with the fields of the rendered form unedited
UploadAny == req.op = "none" /\ \E f \in Files, d \in Dates : upload("c1", f, d)

ExportUnedited ==
    /\ req.op = "upload"
    /\ resp.kind = "page"
    /\ \E sel \in SeqsUpTo(0..(Len(resp.events) - 1), MaxSel) :
           export("c1", CandTitles(resp.events), CandStarts(resp.events),
                  CandEnds(resp.events), sel, DEFAULT_NAME)

NextUpload == UploadAny \/ ExportUnedited \/ \E p \in pending : SendFile(p)

SpecUpload == InitLoggedIn /\ [][NextUpload]_vars

\* The export form: the rows of the page, some edited by the caller.  Rows 0
\* and 1 have identical fields.
FormRows ==
    <<R_GOOD, R_GOOD, R_ZOO, R_LATE, R_BADSTART, R_BADEND, R_NOT, R_BACKWARDS>>

\* Indices of every row, the last row counted from the end, and one index
\* beyond each end of the lists
IndexPool == {0 - Len(FormRows) - 1, -1} \cup 0..Len(FormRows)

\* The titles list, possibly one shorter than the other two
FormTitles(rows, short) ==
    IF short THEN SubSeq(Titles(rows), 1, Len(rows) - 1) ELSE Titles(rows)

PRIOR_NAME == "prior"

\* An earlier export of the logged-in user, whose file is then downloaded
PriorExport ==
    /\ req.op = "none"
    /\ export("c1", Titles(<<R_GOOD>>), Starts(<<R_GOOD>>), Ends(<<R_GOOD>>), <<0>>,
              PRIOR_NAME)

\* One export of any selection, by the logged-in client or the anonymous one
ExportAny ==
    /\ req.op \in {"none", "send_file"}
    /\ \A k \in 1..Len(history) : history[k].custom_name = PRIOR_NAME
    /\ \E c \in Clients, short \in BOOLEAN, sel \in SeqsUpTo(IndexPool, MaxSel) :
           export(c, FormTitles(FormRows, short), Starts(FormRows), Ends(FormRows),
                  sel, DEFAULT_NAME)

NextExport == PriorExport \/ ExportAny \/ \E p \in pending : SendFile(p)

SpecExport == InitLoggedIn /\ [][NextExport]_vars

\* Exports of one user served concurrently: the handler runs to its return
\* without yielding, and the file of each response is read when it is sent
RaceRows == <<R_GOOD, R_LATE>>
RaceSelections == {<<0>>, <<1>>, <<0, 1>>}

ExportRace ==
    \E c \in Clients, sel \in RaceSelections :
        export(c, Titles(RaceRows), Starts(RaceRows), Ends(RaceRows), sel, DEFAULT_NAME)

NextRace ==
    \/ \E c \in Clients : login(c, "u1", "p1")
    \/ ExportRace
    \/ \E p \in pending : SendFile(p)

SpecRace == InitLoggedIn /\ [][NextRace]_vars

-----------------------------------------------------------------------------
(* Properties *)

IsParsedKind(file) == EndsWith(file.filename, PDF) \/ EndsWith(file.filename, HTML)

\* The document parser of the file's kind runs and raises
ParserRaises(file) == IsParsedKind(file) /\ file.corrupt

\* The lines of text the matcher is given
SourceLines(file) == IF IsParsedKind(file) THEN file.lines ELSE <<>>

\* The line contains a substring that the time-range pattern matches
ContainsTimeRange(line) == \E p \in 1..Len(line) : MatchAt(line, p).ok

MatchingLines(file) == SelectSeq(SourceLines(file), ContainsTimeRange)

UploadReturned == req.op = "upload" /\ ~ParserRaises(req.file)

\* C1: parse_content returns exactly one candidate per line that contains a
\* time-range match and none for any other line, in the order of the source
\* lines, with no deduplication and no sorting; no lines or no matching lines
\* give the empty list.
C1_OneCandidatePerMatchingLine ==
    UploadReturned =>
        /\ Len(resp.events) = Len(MatchingLines(req.file))
        /\ \A k \in 1..Len(resp.events) :
               resp.events[k] =
                   Candidate(re_search(MatchingLines(req.file)[k]), req.event_date)

\* A document of two identical matching lines gave two identical candidates
C1_Witness ==
    /\ UploadReturned
    /\ Len(req.file.lines) = 2
    /\ Len(resp.events) = 2
    /\ resp.events[1] = resp.events[2]

\* s with every period rewritten to a colon
ColonNormalized(s) == [i \in 1..Len(s) |-> IF s[i] = "." THEN ":" ELSE s[i]]

\* title is t without its leading and trailing whitespace
IsTrimOf(title, t) ==
    /\ \E a, b \in 0..Len(t) :
           /\ a + b <= Len(t)
           /\ title = SubSeq(t, a + 1, Len(t) - b)
           /\ \A i \in 1..a : IsSpace(t[i])
           /\ \A i \in (Len(t) - b + 1)..Len(t) : IsSpace(t[i])
    /\ title # <<>> => (~IsSpace(title[1]) /\ ~IsSpace(title[Len(title)]))

\* C2: for a matching line with start token s, end token e and remainder t the
\* candidate has time = s "-" e in their original text, s_iso = the reference
\* date, "T", s with periods rewritten to colons, ":00", e_iso likewise from
\* e, and title = t trimmed (an empty title is accepted).
C2_CandidateFields ==
    UploadReturned =>
        \A k \in 1..Len(resp.events) :
            LET m  == re_search(MatchingLines(req.file)[k])
                ev == resp.events[k]
            IN  /\ m.ok
                /\ ev.time = m.s \o <<"-">> \o m.e
                /\ ev.s_iso = req.event_date \o <<"T">> \o ColonNormalized(m.s)
                                  \o <<":", "0", "0">>
                /\ ev.e_iso = req.event_date \o <<"T">> \o ColonNormalized(m.e)
                                  \o <<":", "0", "0">>
                /\ IsTrimOf(ev.title, m.t)

\* Period separators, an en dash and trailing whitespace on one line, and an
\* empty title on another
C2_Witness ==
    /\ UploadReturned
    /\ Len(resp.events) = 2
    /\ resp.events[1].time =
           <<"1", "4", ".", "0", "0", "-", "1", "5", ".", "0", "0">>
    /\ resp.events[1].s_iso = req.event_date \o <<"T", "1", "4", ":", "0", "0", ":", "0", "0">>
    /\ resp.events[1].title = <<"L", "a", "b">>
    /\ resp.events[2].title = <<>>

\* C6: upload answers "no events found" exactly when parse_content returns
\* with zero candidates (so for every filename that ends in neither .pdf nor
\* .html), "parse error" with the cause exactly when the document parser
\* raises, and the candidate list otherwise; the three exclude each other.
C6_UploadOutcomes ==
    req.op = "upload" =>
        LET noEvents   == resp.kind = "redirect" /\ resp.error = "no_events"
            parseError == resp.kind = "redirect" /\ resp.error = "parse_error"
            listed     == resp.kind = "page"
        IN  /\ noEvents <=> (~ParserRaises(req.file) /\ MatchingLines(req.file) = <<>>)
            /\ parseError <=> ParserRaises(req.file)
            /\ parseError => resp.cause = req.file.error
            /\ listed <=> (~ParserRaises(req.file) /\ MatchingLines(req.file) # <<>>)
            /\ listed => resp.events # <<>>
            /\ ~IsParsedKind(req.file) => noEvents
            /\ ~(noEvents /\ parseError) /\ ~(noEvents /\ listed) /\ ~(parseError /\ listed)

\* A corrupt document of a parsed kind was answered with the parse error
C6_Witness ==
    /\ req.op = "upload"
    /\ ParserRaises(req.file)
    /\ resp.error = "parse_error"
    /\ resp.cause = "no pages"

\* C9: for a reference date of the form YYYY-MM-DD, an export of candidates
\* that an upload returned, unedited, never fails on timestamp parsing.
C9_UneditedExportParses ==
    [][(/\ req.op = "upload"
        /\ ParseDate(req.event_date).ok
        /\ req'.op = "export")
       => ~(resp'.kind = "exception" /\ resp'.exc = "ValueError: isoformat")]_vars

-----------------------------------------------------------------------------
(* The calendar text that an export wrote *)

DocLines(content) == Split(content, "\r\n")

IsBeginEvent(line) == line = <<"BEGIN:VEVENT">>
IsEndEvent(line) == line = <<"END:VEVENT">>
IsUidLine(line) == line # <<>> /\ Head(line) = "UID:"
IsSummaryLine(line) == line # <<>> /\ Head(line) = "SUMMARY:"
IsTimestampLine(line) == line # <<>> /\ Head(line) \in {"DTSTART:", "DTEND:"}

EntryCount(content) == Len(SelectSeq(DocLines(content), IsBeginEvent))

\* The uids of the entries, in the order of the text
EntryUids(content) ==
    LET ls == SelectSeq(DocLines(content), IsUidLine)
    IN  [k \in 1..Len(ls) |-> Tail(ls[k])]

\* The names of the entries, in the order of the text
EntryNames(content) ==
    LET ls == SelectSeq(DocLines(content), IsSummaryLine)
    IN  [k \in 1..Len(ls) |-> Tail(ls[k])]

NoZOnTimestampLines(content) ==
    \A k \in 1..Len(DocLines(content)) :
        IsTimestampLine(DocLines(content)[k]) =>
            \A i \in 1..Len(DocLines(content)[k]) : DocLines(content)[k][i] # "Z"

ExportServed == req.op = "export" /\ session[req.client] # 0

ExportWrote == ExportServed /\ resp.kind = "file"

\* Every selected index is in range of the three lists and the selected
\* start and end strings parse as timestamps
AllParse(r) ==
    \A k \in 1..Len(r.selected) :
        /\ PyIndex(r.titles, r.selected[k]).ok
        /\ PyIndex(r.starts, r.selected[k]).ok
        /\ PyIndex(r.ends, r.selected[k]).ok
        /\ fromisoformat(PyIndex(r.starts, r.selected[k]).val).ok
        /\ fromisoformat(PyIndex(r.ends, r.selected[k]).val).ok

Malformed(r) == ~AllParse(r)

\* C3: for every selection whose entries all parse, the calendar text holds
\* exactly one entry per selected index (also for an index selected twice or
\* events with identical fields) and no "Z" on any timestamp line.
C3_OneEntryPerSelectedInput ==
    (ExportServed /\ AllParse(req)) =>
        /\ resp.kind = "file"
        /\ EntryCount(files[resp.path]) = Len(req.selected)
        /\ NoZOnTimestampLines(files[resp.path])

\* C4: each selected event's title is, character for character, the name of
\* its entry in the calendar text that export writes.
C4_TitlesVerbatim ==
    ExportWrote =>
        \A k \in 1..Len(req.selected) :
            \E j \in 1..Len(EntryNames(files[resp.path])) :
                EntryNames(files[resp.path])[j] = PyIndex(req.titles, req.selected[k]).val

C7_MalformedSelectionRejected ==
    [][(req'.op = "export" /\ Malformed(req'))
       => /\ resp'.kind # "file"
          /\ session[req'.client] # 0 => resp'.kind = "exception"
          /\ history' = history
          /\ files' = files
          /\ pending' = pending]_vars

\* An export whose second selected entry is bad, after a good first one, was
\* refused, and the earlier export's row and file are as they were
C7_Witness ==
    /\ ExportServed
    /\ Len(req.selected) = 2
    /\ AllParse([req EXCEPT !.selected = <<req.selected[1]>>])
    /\ req.selected[1] = 0
    /\ Malformed(req)
    /\ resp = [kind |-> "exception", exc |-> "ValueError: isoformat"]
    /\ Len(history) = 1
    /\ files[1] # NoFile

\* C8: the calendar file sent in answer to an export is the serialization of
\* that request's own selection, under every interleaving.
C8_OwnFileDelivered == \A d \in delivered : d.body = d.own

\* C10: an export without a logged-in session gets the login redirect and
\* changes neither the history table nor any export file; a history row is
\* only ever added by an export, carries the user_id of the session that
\* issued it, and is never changed afterwards.
C10_HistoryOnlyByAuthenticatedExport ==
    [][/\ (req'.op = "export" /\ session[req'.client] = 0)
          => /\ resp' = [kind |-> "redirect", error |-> "login_required"]
             /\ history' = history
             /\ files' = files
       /\ history' # history
          => /\ req'.op = "export"
             /\ session[req'.client] # 0
             /\ Len(history') = Len(history) + 1
             /\ SubSeq(history', 1, Len(history)) = history
             /\ history'[Len(history')].user_id = session[req'.client]]_vars

\* An anonymous export was turned away while the table holds a row of the
\* second registered user
C10_Witness ==
    /\ req.op = "export"
    /\ session[req.client] = 0
    /\ resp.kind = "redirect"
    /\ Len(history) = 1
    /\ history[1].user_id = 2

====
